---- MODULE Spec2Model ----
(***************************************************************************)
(* A model of binance-go's client package: the stream subscription loop    *)
(* (API.Stream / API.connect) and the unary request dispatcher             *)
(* (API.Request / API.SignedRequest).                                      *)
(***************************************************************************)
EXTENDS Integers, Sequences, FiniteSets, TLC

(***************************************************************************)
(* Bounds of the model and program constants.                              *)
(***************************************************************************)
\* The number of messages the transport delivers successfully in one run.
MaxMsgs == 2

\* client.go:29-31
ReconnectLimit == 10

\* The payloads a read may return (the handler gets the raw bytes).
Payloads == {"json", "garbage"}

\* The topics a subscription may be opened on.
Topics == {"btcusdt@depth", "ethbtc@kline_1m"}

\* The subscriptions started through one client.
Sessions == {"A", "B"}

\* A subscription before its Stream call.
NewSession == [pc |-> "start", reconnects |-> 0, websocketClient |-> 0,
               dialed |-> 0, open |-> {}, reads |-> 0]

VARIABLES
    autoReconnect,    \* API.AutoReconnect
    endpoint,         \* the endpoint argument of API.Stream
    pc,               \* position of the subscription: the Stream call, then its goroutine
    reconnects,       \* the local counter of the read goroutine
    websocketClient,  \* the connection the loop reads from (index into conns, 0: none)
    deferred,         \* the connection bound by the goroutine's defer statement
    conns,            \* every connection dialed so far: [topic, open]
    m,                \* the message of the last successful read, until dispatched
    readLog,          \* the messages read so far, in order: [conn, data]
    dispatchLog,      \* the messages handed to `go handler(m)`, in order
    runs,             \* the handler goroutines, one per dispatch: "spawned" or "done"
    readFailures,     \* how many reads returned an error
    call,             \* the last unary request made and what it returned
    typedCalls,       \* the typed handler invocations (`go handler(out)`), in order
    sessions          \* the subscriptions of one client, when it runs several

streamVars == <<autoReconnect, endpoint, pc, reconnects, websocketClient, deferred,
                conns, m, readLog, dispatchLog, runs, readFailures, typedCalls,
                sessions>>
vars == <<autoReconnect, endpoint, pc, reconnects, websocketClient, deferred,
          conns, m, readLog, dispatchLog, runs, readFailures, call, typedCalls, sessions>>

NoCall == [fn |-> "none"]

(***************************************************************************)
(* The stream subscription.                                                *)
(***************************************************************************)
\* New sets AutoReconnect to true; the field is exported and a caller may
\* clear it before subscribing.
Init ==
    /\ autoReconnect \in BOOLEAN
    /\ endpoint \in Topics
    /\ pc = "start"
    /\ reconnects = 0
    /\ websocketClient = 0
    /\ deferred = 0
    /\ conns = <<>>
    /\ m = "none"
    /\ readLog = <<>>
    /\ dispatchLog = <<>>
    /\ runs = <<>>
    /\ readFailures = 0
    /\ call = NoCall
    /\ typedCalls = <<>>
    /\ sessions = [s \in Sessions |-> NewSession]

\* The states of the subscription's state machine, from the loop's position.
State ==
    CASE pc = "start" -> "Connecting"
      [] pc \in {"read", "dispatch"} -> "Open"
      [] pc \in {"close", "incr", "dial"} -> "Reconnecting"
      [] OTHER -> "Closed"

\* The dial URL written out for one topic instead of formatted from the endpoint.
DialedHardCoded(topic) == Append(conns, [topic |-> "btcusdt@depth", open |-> TRUE])

\* connect: the dial succeeded; the new connection is to the given endpoint.
Dialed(topic) == Append(conns, [topic |-> topic, open |-> TRUE])

\* conn.Close()
Closed(c) == [conns EXCEPT ![c].open = FALSE]

\* The limit compared with <=: one reconnect too many.
MayReconnectInclusive == autoReconnect /\ reconnects <= ReconnectLimit

\* The limit compared one short: the last reconnect of the budget is refused.
MayReconnectShort == autoReconnect /\ reconnects + 1 < ReconnectLimit

\* The AutoReconnect flag left out of the condition.
MayReconnectUnconditional == reconnects < ReconnectLimit

\* The condition under which a read error is answered with a reconnect.
MayReconnect == autoReconnect /\ reconnects < ReconnectLimit

\* The counter after a forced reconnect.
NextReconnects == reconnects + 1

\* connect logging the dial error and returning nil: Stream starts the
\* goroutine on no connection.
StreamStartsAnyway ==
    /\ pc = "start"
    /\ \/ /\ conns' = Dialed(endpoint)
          /\ websocketClient' = Len(conns) + 1
          /\ deferred' = Len(conns) + 1
       \/ UNCHANGED <<conns, websocketClient, deferred>>
    /\ pc' = "read"
    /\ UNCHANGED <<autoReconnect, endpoint, reconnects, m, readLog, dispatchLog,
                   runs, readFailures, call, typedCalls, sessions>>

\* Stream: connect, then start the goroutine, whose first statement is the
\* defer of websocketClient.Close(): the receiver is evaluated there.
\* A failed dial is log.Fatal: the process exits.
Stream ==
    /\ pc = "start"
    /\ \/ /\ conns' = Dialed(endpoint)
          /\ websocketClient' = Len(conns) + 1
          /\ deferred' = Len(conns) + 1
          /\ pc' = "read"
       \/ /\ pc' = "fatal"
          /\ UNCHANGED <<conns, websocketClient, deferred>>
    /\ UNCHANGED <<autoReconnect, endpoint, reconnects, m, readLog, dispatchLog,
                   runs, readFailures, call, typedCalls, sessions>>

\* The handler called in the loop itself (no `go`): the next read waits for it.
ReadOkWaitsForHandler ==
    /\ pc = "read"
    /\ \A i \in 1..Len(runs) : runs[i] = "done"
    /\ Len(readLog) < MaxMsgs
    /\ \E d \in Payloads :
          /\ m' = d
          /\ readLog' = Append(readLog, [conn |-> websocketClient, data |-> d])
    /\ pc' = "dispatch"
    /\ UNCHANGED <<autoReconnect, endpoint, reconnects, websocketClient, deferred,
                   conns, dispatchLog, runs, readFailures, call, typedCalls, sessions>>

\* ReadMessage returns a message.
ReadOk ==
    /\ pc = "read"
    /\ Len(readLog) < MaxMsgs
    /\ \E d \in Payloads :
          /\ m' = d
          /\ readLog' = Append(readLog, [conn |-> websocketClient, data |-> d])
    /\ pc' = "dispatch"
    /\ UNCHANGED <<autoReconnect, endpoint, reconnects, websocketClient, deferred,
                   conns, dispatchLog, runs, readFailures, call, typedCalls, sessions>>

\* Messages kept on a stack and handed over newest first.
DispatchNewestFirst ==
    /\ pc = "dispatch"
    /\ dispatchLog' = <<[conn |-> websocketClient, data |-> m]>> \o dispatchLog
    /\ runs' = <<"spawned">> \o runs
    /\ m' = "none"
    /\ pc' = "read"
    /\ UNCHANGED <<autoReconnect, endpoint, reconnects, websocketClient, deferred,
                   conns, readLog, readFailures, call, typedCalls, sessions>>

\* go handler(m)
Dispatch ==
    /\ pc = "dispatch"
    /\ dispatchLog' = Append(dispatchLog, [conn |-> websocketClient, data |-> m])
    /\ runs' = Append(runs, "spawned")
    /\ m' = "none"
    /\ pc' = "read"
    /\ UNCHANGED <<autoReconnect, endpoint, reconnects, websocketClient, deferred,
                   conns, readLog, readFailures, call, typedCalls, sessions>>

\* The return of the terminal branch left out: control falls through to
\* `go handler(m)` and the loop goes on.
ReadFailFallsThrough ==
    /\ pc = "read"
    /\ Len(readLog) < MaxMsgs
    /\ readFailures' = readFailures + 1
    /\ IF MayReconnect
         THEN /\ pc' = "close"
              /\ UNCHANGED <<readLog, m>>
         ELSE /\ pc' = "dispatch"
              /\ m' = "nil"
              /\ readLog' = Append(readLog, [conn |-> websocketClient, data |-> "nil"])
    /\ UNCHANGED <<autoReconnect, endpoint, reconnects, websocketClient, deferred,
                   conns, dispatchLog, runs, call, typedCalls, sessions>>

\* ReadMessage returns an error: reconnect, or return (which runs the defer).
ReadFail ==
    /\ pc = "read"
    /\ readFailures' = readFailures + 1
    /\ IF MayReconnect
         THEN /\ pc' = "close"
              /\ UNCHANGED conns
         ELSE /\ pc' = "done"
              /\ conns' = Closed(deferred)
    /\ UNCHANGED <<autoReconnect, endpoint, reconnects, websocketClient, deferred,
                   m, readLog, dispatchLog, runs, call, typedCalls, sessions>>

\* The reconnect without the Close of the connection that failed.
CloseConnForgotten ==
    /\ pc = "close"
    /\ pc' = "incr"
    /\ UNCHANGED <<autoReconnect, endpoint, reconnects, websocketClient, deferred,
                   conns, m, readLog, dispatchLog, runs, readFailures, call,
                   typedCalls, sessions>>

\* websocketClient.Close() before the reconnect; its error is only logged.
CloseConn ==
    /\ pc = "close"
    /\ conns' = Closed(websocketClient)
    /\ pc' = "incr"
    /\ UNCHANGED <<autoReconnect, endpoint, reconnects, websocketClient, deferred,
                   m, readLog, dispatchLog, runs, readFailures, call, typedCalls, sessions>>

\* reconnects++
Incr ==
    /\ pc = "incr"
    /\ reconnects' = NextReconnects
    /\ pc' = "dial"
    /\ UNCHANGED <<autoReconnect, endpoint, websocketClient, deferred, conns,
                   m, readLog, dispatchLog, runs, readFailures, call, typedCalls, sessions>>

\* A reconnect that restores the budget once the new handshake succeeds.
RedialResetsCounter ==
    /\ pc = "dial"
    /\ \/ /\ conns' = Dialed(endpoint)
          /\ websocketClient' = Len(conns) + 1
          /\ reconnects' = 0
          /\ pc' = "read"
       \/ /\ pc' = "fatal"
          /\ UNCHANGED <<conns, websocketClient, reconnects>>
    /\ UNCHANGED <<autoReconnect, endpoint, deferred, m, readLog,
                   dispatchLog, runs, readFailures, call, typedCalls, sessions>>

\* websocketClient = a.connect(endpoint); continue
Redial ==
    /\ pc = "dial"
    /\ \/ /\ conns' = Dialed(endpoint)
          /\ websocketClient' = Len(conns) + 1
          /\ pc' = "read"
       \/ /\ pc' = "fatal"
          /\ UNCHANGED <<conns, websocketClient>>
    /\ UNCHANGED <<autoReconnect, endpoint, reconnects, deferred, m, readLog,
                   dispatchLog, runs, readFailures, call, typedCalls, sessions>>

\* json.Unmarshal(d, &out) of the Depth and Kline wrappers: on an error out
\* keeps its zero value.
Unmarshal(d) ==
    IF d = "json" THEN [ok |-> TRUE, out |-> "decoded"]
                  ELSE [ok |-> FALSE, out |-> "zero"]

\* What a wrapper run adds to the typed handler's invocations: the error of
\* Unmarshal is not looked at, `go handler(out)` follows in every case.
TypedCall(i) ==
    <<[run |-> i, out |-> Unmarshal(dispatchLog[i].data).out]>>

\* A handler goroutine runs: the wrapper the Depth and Kline subscriptions
\* pass to Stream.  log.Fatal has ended them all with the process.
HandlerRun ==
    /\ pc # "fatal"
    /\ \E i \in 1..Len(runs) :
          /\ runs[i] = "spawned"
          /\ runs' = [runs EXCEPT ![i] = "done"]
          /\ typedCalls' = typedCalls \o TypedCall(i)
    /\ UNCHANGED <<autoReconnect, endpoint, pc, reconnects, websocketClient,
                   deferred, conns, m, readLog, dispatchLog, readFailures, call,
                   sessions>>

Next ==
    \/ Stream
    \/ ReadOk
    \/ Dispatch
    \/ ReadFail
    \/ CloseConn
    \/ Incr
    \/ Redial
    \/ HandlerRun

Spec == Init /\ [][Next]_vars

(***************************************************************************)
(* Properties of the stream subscription.                                  *)
(***************************************************************************)
\* Every dial of the session so far has succeeded.
HandshakesOk == pc # "fatal"

\* C2 (as stated): once ten consecutive read failures have occurred (the
\* limit is reached exactly) the session is on its way to Closed: it is
\* never Open again.
C2_ClosedAtTenFailures ==
    (autoReconnect /\ HandshakesOk /\ readFailures >= ReconnectLimit /\ readLog = <<>>)
        => State # "Open"

\* C2 (amended): the session never performs more than ReconnectLimit
\* reconnects (counter and dials); after ReconnectLimit failures with every
\* handshake succeeding it is still Reconnecting or Open, and it is the next
\* read failure, the one past the limit, that closes it without a reconnect.
C2_ReconnectBudget ==
    /\ reconnects <= ReconnectLimit
    /\ Len(conns) <= ReconnectLimit + 1
    /\ (autoReconnect /\ HandshakesOk /\ readFailures \in 1..ReconnectLimit)
          => State \in {"Reconnecting", "Open"}
    /\ readFailures > ReconnectLimit
          => /\ State = "Closed"
             /\ readFailures = ReconnectLimit + 1
             /\ reconnects = ReconnectLimit

\* Ten consecutive failures, ten reconnects, then the failure that closes.
C2_Witness ==
    /\ pc = "done"
    /\ readFailures = ReconnectLimit + 1
    /\ reconnects = ReconnectLimit
    /\ readLog = <<>>

\* C3: the reconnect counter starts at 0, stays within 0..ReconnectLimit,
\* and every step leaves it unchanged or adds exactly 1 as part of a
\* reconnect forced by a read failure; no successful redial or read resets it.
C3_CounterMonotonic ==
    /\ reconnects = 0
    /\ [](reconnects \in 0..ReconnectLimit)
    /\ [][\/ reconnects' = reconnects
          \/ /\ reconnects' = reconnects + 1
             /\ State = "Reconnecting"
             /\ readFailures = reconnects']_vars

\* Messages were read and dispatched after reconnects, and the counter kept
\* its value.
C3_Witness ==
    /\ reconnects = 2
    /\ pc = "read"
    /\ Len(dispatchLog) = 2
    /\ dispatchLog[1].conn = 2
    /\ dispatchLog[2].conn = 3

\* C4: with auto-reconnect on and every handshake succeeding, k <= limit read
\* failures leave the session with exactly k reconnects and not Closed, and
\* every message read is dispatched: the dispatches are the reads, in order,
\* but for the one message the loop is about to dispatch.
C4_ReconnectsThenDelivers ==
    (autoReconnect /\ HandshakesOk /\ readFailures <= ReconnectLimit) =>
        /\ State # "Closed"
        /\ State = "Open" => reconnects = readFailures
        /\ pc = "dispatch" =>
              readLog = Append(dispatchLog, [conn |-> websocketClient, data |-> m])
        /\ pc # "dispatch" => readLog = dispatchLog

\* k = ReconnectLimit: after the tenth reconnect a message is read from
\* the eleventh connection and dispatched.
C4_Witness ==
    /\ autoReconnect
    /\ pc = "read"
    /\ readFailures = ReconnectLimit
    /\ reconnects = ReconnectLimit
    /\ Len(dispatchLog) >= 1
    /\ dispatchLog[Len(dispatchLog)].conn = ReconnectLimit + 1

\* C5: with auto-reconnect off, the first read failure ends the session: it
\* is Closed with the counter at 0 and one connection dialed, and from then
\* on nothing is read, nothing is dispatched and nothing is dialed.
C5_NoReconnectWhenDisabled ==
    /\ []((~autoReconnect /\ readFailures >= 1) =>
            /\ State = "Closed"
            /\ reconnects = 0
            /\ readFailures = 1
            /\ Len(conns) = 1)
    /\ [][(~autoReconnect /\ readFailures >= 1) =>
            /\ readLog' = readLog
            /\ dispatchLog' = dispatchLog
            /\ Len(runs') = Len(runs)
            /\ Len(conns') = Len(conns)
            /\ reconnects' = reconnects]_vars

\* Auto-reconnect off, messages delivered, then the one failure.
C5_Witness ==
    /\ ~autoReconnect
    /\ readFailures = 1
    /\ pc = "done"
    /\ Len(dispatchLog) = 2

\* The loop has met the read failure that ends it: auto-reconnect is off, or
\* the counter was at the limit.
Exhausted ==
    readFailures >= 1 /\ (~autoReconnect \/ readFailures > ReconnectLimit)

\* C6 (as stated): once the session is Closed no handler run executes.
C6_NoHandlerRunsAfterClosed ==
    [][State = "Closed" => runs' = runs]_vars

\* C6 (amended): the read failure that exhausts the session closes it, and
\* once Closed the session stays Closed, reads no message and starts no new
\* handler run; the handler runs dispatched before may still execute.
C6_NoDispatchAfterClosed ==
    /\ [](Exhausted => State = "Closed")
    /\ [][State = "Closed" =>
            /\ State' = "Closed"
            /\ readLog' = readLog
            /\ dispatchLog' = dispatchLog
            /\ Len(runs') = Len(runs)]_vars

\* The session is Closed while a handler run dispatched earlier has yet to
\* execute.
C6_Witness ==
    /\ pc = "done"
    /\ Len(runs) = 2
    /\ runs[1] = "done"
    /\ runs[2] = "spawned"


\* C11: a read error with auto-reconnect on and the counter below the limit
\* is answered by closing the current connection, then adding exactly 1 to
\* the counter, then dialing a new connection; every connection of the
\* session is dialed to the endpoint of the subscription, which never changes.
C11_ReconnectSteps ==
    /\ [](/\ \A c \in 1..Len(conns) : conns[c].topic = endpoint
          /\ pc = "close" =>
                /\ conns[websocketClient].open
                /\ reconnects + 1 = readFailures
                /\ Len(conns) = reconnects + 1
          /\ pc = "incr" =>
                /\ ~conns[websocketClient].open
                /\ reconnects + 1 = readFailures
                /\ Len(conns) = reconnects + 1
          /\ pc = "dial" =>
                /\ ~conns[websocketClient].open
                /\ reconnects = readFailures
                /\ Len(conns) = reconnects)
    /\ [][/\ endpoint' = endpoint
          /\ (readFailures' # readFailures /\ autoReconnect /\ reconnects < ReconnectLimit)
                => pc' = "close"
          /\ (pc = "close" /\ pc' # pc) => (pc' = "incr" /\ reconnects' = reconnects)
          /\ (pc = "incr" /\ pc' # pc) => (pc' = "dial" /\ reconnects' = reconnects + 1)
          /\ (pc = "dial" /\ pc' \notin {pc, "fatal"}) =>
                /\ pc' = "read"
                /\ conns' = Append(conns, [topic |-> endpoint, open |-> TRUE])
                /\ websocketClient' = Len(conns')]_vars

\* A kline subscription after two reconnects, reading from its third connection.
C11_Witness ==
    /\ endpoint = "ethbtc@kline_1m"
    /\ pc = "read"
    /\ reconnects = 2
    /\ Len(conns) = 3
    /\ websocketClient = 3
    /\ conns[3] = [topic |-> "ethbtc@kline_1m", open |-> TRUE]

\* C12: a handler run never delays the read loop: whenever the loop is at its
\* read, the read can return a message (while the transport has one) or an
\* error, whatever the number of handler runs that have not completed; the
\* loop hands each message it read to one handler run of its own.
C12_ReadNeverWaits ==
    /\ (pc = "read" /\ Len(readLog) < MaxMsgs) => ENABLED ReadOk
    /\ pc = "read" => ENABLED ReadFail
    /\ pc = "dispatch" => ENABLED Dispatch
    /\ Len(runs) = Len(dispatchLog)
    /\ Len(readLog) = Len(dispatchLog) + (IF pc = "dispatch" THEN 1 ELSE 0)

\* The loop is back at its read while the run of the first message has yet
\* to execute.
C12_Witness ==
    /\ pc = "read"
    /\ runs = <<"spawned">>
    /\ Len(readLog) = 1

\* C13: the messages are handed to handler-dispatch in the order they were
\* read: the k-th dispatch is the k-th message read, from the connection it
\* was read from, so two messages of one connection are dispatched in their
\* order of arrival.
C13_DispatchInReadOrder ==
    /\ Len(dispatchLog) <= Len(readLog)
    /\ \A k \in 1..Len(dispatchLog) : dispatchLog[k] = readLog[k]
    /\ \A j, k \in 1..Len(readLog) : j < k => readLog[j].conn <= readLog[k].conn

\* Two different messages read from one connection, both dispatched.
C13_Witness ==
    /\ Len(dispatchLog) = 2
    /\ dispatchLog[1].conn = dispatchLog[2].conn
    /\ dispatchLog[1].data = "json"
    /\ dispatchLog[2].data = "garbage"

\* How many typed handler invocations the wrapper run of dispatch i has made.
TypedCallsOf(i) == Cardinality({j \in 1..Len(typedCalls) : typedCalls[j].run = i})

\* C14: a message that fails to deserialize is dropped: the typed handler is
\* invoked once for every well-formed message whose wrapper has run, and not
\* at all for a malformed one.
C14_MalformedDropped ==
    \A i \in 1..Len(runs) :
        TypedCallsOf(i) = IF runs[i] = "done" /\ Unmarshal(dispatchLog[i].data).ok
                            THEN 1 ELSE 0

\* A malformed message has been dispatched and its wrapper run has invoked
\* the typed handler with the zero value.
C14_Witness ==
    /\ Len(dispatchLog) = 1
    /\ dispatchLog[1].data = "garbage"
    /\ runs = <<"done">>
    /\ typedCalls = <<[run |-> 1, out |-> "zero"]>>

\* C15: when the initial handshake fails the subscription goes from
\* Connecting straight to Closed and the process ends: the read goroutine is
\* never started (its defer binds no connection), nothing is read, no
\* reconnect is made, no handler is invoked, and no step follows.
C15_InitialHandshakeFatal ==
    /\ []((pc # "start" /\ conns = <<>>) =>
            /\ pc = "fatal"
            /\ State = "Closed"
            /\ reconnects = 0
            /\ readFailures = 0
            /\ websocketClient = 0
            /\ deferred = 0
            /\ readLog = <<>>
            /\ dispatchLog = <<>>
            /\ runs = <<>>
            /\ typedCalls = <<>>
            /\ ~ENABLED Next)
    /\ [][(pc = "start" /\ pc' # pc) =>
            \/ (pc' = "fatal" /\ conns' = <<>>)
            \/ (pc' = "read" /\ Len(conns') = 1)]_vars

\* The Stream call has been made and its dial has failed.
C15_Witness ==
    /\ pc = "fatal"
    /\ conns = <<>>
    /\ autoReconnect

\* C16: the subscription becomes Closed only by a failed handshake (of the
\* Stream call or of a reconnect) or by a read failure met with the counter
\* at the limit or with auto-reconnect off; a successful read leaves it Open,
\* a read failure with auto-reconnect on and the counter below the limit
\* makes it Reconnecting, and the reconnect's successful handshake Open.
C16_CausesOfClosing ==
    /\ [][(State # "Closed" /\ State' = "Closed") =>
            \/ /\ pc \in {"start", "dial"}
               /\ pc' = "fatal"
               /\ conns' = conns
            \/ /\ pc = "read"
               /\ pc' = "done"
               /\ readFailures' = readFailures + 1
               /\ readLog' = readLog
               /\ (~autoReconnect \/ reconnects = ReconnectLimit)]_vars
    /\ [][readLog' # readLog => State' = "Open"]_vars
    /\ [][(readFailures' # readFailures /\ autoReconnect /\ reconnects < ReconnectLimit)
            => State' = "Reconnecting"]_vars
    /\ [][(pc = "dial" /\ Len(conns') > Len(conns)) => State' = "Open"]_vars

\* Closed by the failed handshake of a reconnect, after a message was read.
C16_Witness ==
    /\ pc = "fatal"
    /\ reconnects = 1
    /\ Len(conns) = 1
    /\ Len(dispatchLog) = 1

\* The connections of the session that are open.
OpenConns == {c \in 1..Len(conns) : conns[c].open}

\* C18: when the session has terminated, every connection it opened is
\* closed, the one it opened last among them.
C18_AllClosedAtTermination ==
    State = "Closed" => OpenConns = {}

\* C19: the session holds at most one open connection: a connection is
\* dialed only when every earlier one is closed, an Open session's current
\* connection is open, and every read is made on an open connection.
C19_AtMostOneOpen ==
    /\ [](Cardinality(OpenConns) <= 1)
    /\ [](State = "Open" => OpenConns = {websocketClient})
    /\ [][Len(conns') > Len(conns) => OpenConns = {}]_vars
    /\ [][(readLog' # readLog \/ readFailures' # readFailures)
            => websocketClient \in OpenConns]_vars

\* After two reconnects the loop reads from the third connection, the only
\* one open.
C19_Witness ==
    /\ pc = "read"
    /\ reconnects = 2
    /\ Len(conns) = 3
    /\ OpenConns = {3}
    /\ Len(readLog) >= 1

(***************************************************************************)
(* Several subscriptions of one client.  Each Stream call has its own      *)
(* websocketClient and its goroutine its own reconnects; they share the    *)
(* client's AutoReconnect flag and the process.                            *)
(***************************************************************************)
\* The same condition as MayReconnect, on the locals of one subscription.
SessionMayReconnect(r) == autoReconnect /\ r.reconnects < ReconnectLimit

\* connect succeeded for subscription r.
SessionDialed(r) ==
    [r EXCEPT !.pc = "read", !.dialed = r.dialed + 1,
              !.websocketClient = r.dialed + 1, !.open = r.open \cup {r.dialed + 1}]

\* log.Fatal in connect: os.Exit ends every goroutine of the process.
ProcessExit == [t \in Sessions |-> [sessions[t] EXCEPT !.pc = "fatal"]]

SessionVarsUnchanged ==
    UNCHANGED <<autoReconnect, endpoint, pc, reconnects, websocketClient, deferred,
                conns, m, readLog, dispatchLog, runs, readFailures, call, typedCalls>>

\* Stream for subscription s
SessionStream(s) ==
    /\ sessions[s].pc = "start"
    /\ \/ sessions' = [sessions EXCEPT ![s] = SessionDialed(sessions[s])]
       \/ sessions' = ProcessExit
    /\ SessionVarsUnchanged

\* ReadMessage returns a message, which goes to `go handler(m)`.
SessionReadOk(s) ==
    /\ sessions[s].pc = "read"
    /\ sessions[s].reads < MaxMsgs
    /\ sessions' = [sessions EXCEPT ![s].reads = @ + 1]
    /\ SessionVarsUnchanged

\* ReadMessage returns an error: reconnect, or return and run the defer,
\* which closes the first connection of the subscription.
SessionReadFail(s) ==
    /\ sessions[s].pc = "read"
    /\ sessions' = [sessions EXCEPT ![s] =
          IF SessionMayReconnect(@)
            THEN [@ EXCEPT !.pc = "close"]
            ELSE [@ EXCEPT !.pc = "done", !.open = @ \ {1}]]
    /\ SessionVarsUnchanged

\* websocketClient.Close()
SessionCloseConn(s) ==
    /\ sessions[s].pc = "close"
    /\ sessions' = [sessions EXCEPT ![s].pc = "incr",
                                    ![s].open = @ \ {sessions[s].websocketClient}]
    /\ SessionVarsUnchanged

\* reconnects++
SessionIncr(s) ==
    /\ sessions[s].pc = "incr"
    /\ sessions' = [sessions EXCEPT ![s].pc = "dial", ![s].reconnects = @ + 1]
    /\ SessionVarsUnchanged

\* websocketClient = a.connect(endpoint)
SessionRedial(s) ==
    /\ sessions[s].pc = "dial"
    /\ \/ sessions' = [sessions EXCEPT ![s] = SessionDialed(sessions[s])]
       \/ sessions' = ProcessExit
    /\ SessionVarsUnchanged

MultiNext ==
    \E s \in Sessions :
        \/ SessionStream(s)
        \/ SessionReadOk(s)
        \/ SessionReadFail(s)
        \/ SessionCloseConn(s)
        \/ SessionIncr(s)
        \/ SessionRedial(s)

MultiInit == Init /\ endpoint = "btcusdt@depth"

MultiSpec == MultiInit /\ [][MultiNext]_vars

\* C20: the running subscriptions of one client are independent: a step of
\* one (a read failure, a reconnect, its termination) leaves the counter, the
\* connection and the position of every other one as they were, so no step
\* changes two of them.
C20_SessionsIndependent ==
    [][\A s, t \in Sessions :
          (s # t /\ sessions[s].pc # "start" /\ sessions[t].pc # "start")
              => (sessions'[s] = sessions[s] \/ sessions'[t] = sessions[t])]_vars

(***************************************************************************)
(* The request dispatcher.  A string is a sequence of tokens: a token is a *)
(* run of unreserved characters, or one reserved character.                *)
(***************************************************************************)
\* How many parameters a parameter bag holds at most.
MaxParams == 2

\* The keys of the model, in the order sort.Strings puts them (url.Values.Encode).
KeyOrder == << <<"limit">>, <<"signature">>, <<"timestamp">>, <<"zeta">> >>

Keys == {KeyOrder[i] : i \in 1..Len(KeyOrder)}

\* The values of a parameter bag after json.Marshal and json.Unmarshal into
\* map[string]interface{}: every JSON number is a float64.
JStr(str) == [t |-> "string", s |-> str, n |-> 0]
JNum(num) == [t |-> "number", s |-> <<>>, n |-> num]
JNull == [t |-> "null", s |-> <<>>, n |-> 0]

ParamValues ==
    {JStr(<<"a", "&", "signature", "=", "b">>), JNum(5), JNum(1000000), JNull}

\* The parameter bags: the maps of at most MaxParams keys.
ParamBags ==
    UNION {[ks -> ParamValues] : ks \in {x \in SUBSET Keys : Cardinality(x) <= MaxParams}}

\* The raw queries the configured base URL may carry.
BaseQueries ==
    {<<>>, <<"limit", "=", "9">>, <<"zeta", "=", "1", "&", "zeta", "=", "2">>}

Methods == {"GET", "POST"}
SecretKeys == {"s1", "s2"}

\* Clock readings, in milliseconds since the epoch.
Clocks == {5000, 5999}

\* What HTTPClient.Do gives: an error and no response, or a response.
ErrBody(code, msg) == [k |-> "error", code |-> code, msg |-> msg]
ResultBody == [k |-> "result", code |-> 0, msg |-> ""]
GarbageBody == [k |-> "garbage", code |-> 0, msg |-> ""]
NetErr == [k |-> "neterr", status |-> 0, body |-> GarbageBody]
Resp(status, body) == [k |-> "response", status |-> status, body |-> body]

Transports ==
    {NetErr,
     Resp(200, ResultBody), Resp(200, GarbageBody),
     Resp(400, ErrBody(-1100, "Illegal characters")),
     Resp(404, ErrBody(-1, "")),
     Resp(500, GarbageBody), Resp(503, ResultBody)}

\* url.QueryEscape and url.QueryUnescape, token by token.
EscTok(t) ==
    CASE t = "&" -> "%26"
      [] t = "=" -> "%3D"
      [] t = "+" -> "%2B"
      [] t = "<" -> "%3C"
      [] t = ">" -> "%3E"
      [] t = " " -> "+"
      [] OTHER -> t

UnescTok(t) ==
    CASE t = "%26" -> "&"
      [] t = "%3D" -> "="
      [] t = "%2B" -> "+"
      [] t = "%3C" -> "<"
      [] t = "%3E" -> ">"
      [] t = "+" -> " "
      [] OTHER -> t

QueryEscape(str) == [i \in 1..Len(str) |-> EscTok(str[i])]
QueryUnescape(str) == [i \in 1..Len(str) |-> UnescTok(str[i])]

\* The first index of token t in str, 0 when it is absent.
IndexOf(str, t) ==
    IF \E i \in 1..Len(str) : str[i] = t
      THEN CHOOSE i \in 1..Len(str) : str[i] = t /\ \A j \in 1..(i - 1) : str[j] # t
      ELSE 0

\* strings.Split on one reserved character.
RECURSIVE SplitOn(_, _)
SplitOn(str, t) ==
    LET i == IndexOf(str, t)
    IN  IF i = 0 THEN <<str>>
        ELSE <<SubSeq(str, 1, i - 1)>> \o SplitOn(SubSeq(str, i + 1, Len(str)), t)

\* The key=value pairs of a raw query in their order, unescaped, as
\* url.ParseQuery reads them: empty pieces are skipped, a piece is cut at its
\* first "=".
Pairs(raw) ==
    LET pieces == SelectSeq(SplitOn(raw, "&"), LAMBDA p : p # <<>>)
        Pair(p) ==
            LET i == IndexOf(p, "=")
            IN  IF i = 0 THEN [key |-> QueryUnescape(p), val |-> <<>>]
                ELSE [key |-> QueryUnescape(SubSeq(p, 1, i - 1)),
                      val |-> QueryUnescape(SubSeq(p, i + 1, Len(p)))]
    IN  [i \in 1..Len(pieces) |-> Pair(pieces[i])]

\* url.Values: a map from keys to their values in order.
RECURSIVE ValuesOf(_)
ValuesOf(ps) ==
    IF ps = <<>> THEN <<>>
    ELSE LET rest == ValuesOf(SubSeq(ps, 1, Len(ps) - 1))
             last == ps[Len(ps)]
         IN  [k \in DOMAIN rest \cup {last.key} |->
                 IF k = last.key
                   THEN (IF k \in DOMAIN rest THEN rest[k] ELSE <<>>) \o <<last.val>>
                   ELSE rest[k]]

\* url.Query(): the base URL's own query, parsed.
ParseQuery(raw) == ValuesOf(Pairs(raw))

\* Values.Set and Values.Add
Set(q, k, v) == [x \in DOMAIN q \cup {k} |-> IF x = k THEN <<v>> ELSE q[x]]
Add(q, k, v) ==
    [x \in DOMAIN q \cup {k} |->
        IF x = k THEN (IF k \in DOMAIN q THEN q[k] ELSE <<>>) \o <<v>> ELSE q[x]]

\* Values.Encode: the keys sorted, each value as key=value, joined by "&".
RECURSIVE Join(_)
Join(parts) ==
    IF parts = <<>> THEN <<>>
    ELSE IF Len(parts) = 1 THEN parts[1]
    ELSE parts[1] \o <<"&">> \o Join(Tail(parts))

RECURSIVE Flatten(_)
Flatten(seqs) == IF seqs = <<>> THEN <<>> ELSE seqs[1] \o Flatten(Tail(seqs))

Encode(q) ==
    LET ks == SelectSeq(KeyOrder, LAMBDA k : k \in DOMAIN q)
        Of(k) == [i \in 1..Len(q[k]) |-> QueryEscape(k) \o <<"=">> \o QueryEscape(q[k][i])]
    IN  Join(Flatten([i \in 1..Len(ks) |-> Of(ks[i])]))

\* strconv's shortest %g of a float64 holding a natural number: %e once the
\* decimal exponent reaches 6, with the mantissa's trailing zeros dropped.
RECURSIVE Pow10(_)
Pow10(e) == IF e = 0 THEN 1 ELSE 10 * Pow10(e - 1)

RECURSIVE NumDigits(_)
NumDigits(num) == IF num < 10 THEN 1 ELSE 1 + NumDigits(num \div 10)

RECURSIVE StripZeros(_)
StripZeros(num) == IF num # 0 /\ num % 10 = 0 THEN StripZeros(num \div 10) ELSE num

RECURSIVE Padded(_, _)
Padded(num, width) ==
    IF width = 0 THEN "" ELSE Padded(num \div 10, width - 1) \o ToString(num % 10)

FormatFloat(num) ==
    LET exp == NumDigits(num) - 1
        mant == StripZeros(num)
        w == NumDigits(mant) - 1
    IN  IF exp < 6 THEN <<ToString(num)>>
        ELSE <<ToString(mant \div Pow10(w))
                   \o (IF w = 0 THEN "" ELSE "." \o Padded(mant % Pow10(w), w))
                   \o "e",
               "+",
               (IF exp < 10 THEN "0" ELSE "") \o ToString(exp)>>

\* fmt.Sprintf("%v", v)
Sprintf(v) ==
    CASE v.t = "string" -> v.s
      [] v.t = "number" -> FormatFloat(v.n)
      [] OTHER -> <<"<", "nil", ">">>

\* for k, v := range m { q.Set(k, fmt.Sprintf("%v", v)) }
RECURSIVE SetAll(_, _, _)
SetAll(q, params, ks) ==
    IF ks = {} THEN q
    ELSE LET k == CHOOSE x \in ks : TRUE
         IN  SetAll(Set(q, k, Sprintf(params[k])), params, ks \ {k})

\* The query a plain request sends: built from the parameters for GET only.
PlainQuery(method, params, base) ==
    IF method = "GET"
      THEN Encode(SetAll(ParseQuery(base), params, DOMAIN params))
      ELSE base

\* time.Now().Unix()*1000, printed with %v (an int64: in decimal).
Timestamp(now) == <<ToString((now \div 1000) * 1000)>>

\* hex.EncodeToString of HMAC-SHA256: the digest is a function of the key and
\* of every byte of the message, taken here to be collision-free.
RECURSIVE Bytes(_)
Bytes(str) == IF str = <<>> THEN "" ELSE str[1] \o Bytes(Tail(str))

HexHmacSha256(key, msg) == "hmac-sha256(" \o key \o "," \o Bytes(msg) \o ")"

\* The signature entered with q.Set before the encoding, which sorts it in
\* among the other keys.
SignedQuerySortedIn(params, base, secretKey, now) ==
    LET q == Add(SetAll(ParseQuery(base), params, DOMAIN params),
                 <<"timestamp">>, Timestamp(now))
    IN  Encode(Set(q, <<"signature">>, <<HexHmacSha256(secretKey, Encode(q))>>))

\* The query a signed request sends.
SignedQuery(params, base, secretKey, now) ==
    LET q == Add(SetAll(ParseQuery(base), params, DOMAIN params),
                 <<"timestamp">>, Timestamp(now))
        signed == HexHmacSha256(secretKey, Encode(q))
    IN  Encode(q) \o <<"&", "signature", "=", signed>>

\* json.NewDecoder(res.Body).Decode(&e) into binanceError
DecodeError(body) ==
    CASE body.k = "error" -> [ok |-> TRUE, msg |-> body.msg]
      [] body.k = "result" -> [ok |-> TRUE, msg |-> ""]
      [] OTHER -> [ok |-> FALSE, msg |-> ""]

\* What a call returns: nil, an error, or a panic that unwinds the caller.
Success == [kind |-> "ok", src |-> "", msg |-> ""]
Failure(src, msg) == [kind |-> "error", src |-> src, msg |-> msg]
Panic == [kind |-> "panic", src |-> "nil dereference", msg |-> ""]

\* The non-200 branch returning the decoder's err instead of the message.
OnResponseReturnsErr(transport, out) ==
    IF transport.k = "neterr"
      THEN [result |-> Panic, outDecoded |-> FALSE]
    ELSE IF transport.status # 200
      THEN [result |-> IF DecodeError(transport.body).ok
                         THEN Success
                         ELSE Failure("decode", "invalid character"),
            outDecoded |-> FALSE]
    ELSE IF out
      THEN IF transport.body.k = "garbage"
             THEN [result |-> Failure("decode", "invalid character"), outDecoded |-> FALSE]
             ELSE [result |-> Success, outDecoded |-> TRUE]
    ELSE [result |-> Success, outDecoded |-> FALSE]

\* From HTTPClient.Do to the return, the same in both functions:
\* `defer res.Body.Close()` reads res.Body with res nil when Do failed.
OnResponse(transport, out) ==
    IF transport.k = "neterr"
      THEN [result |-> Panic, outDecoded |-> FALSE]
    ELSE IF transport.status # 200
      THEN [result |-> Failure("exchange", DecodeError(transport.body).msg),
            outDecoded |-> FALSE]
    ELSE IF out
      THEN IF transport.body.k = "garbage"
             THEN [result |-> Failure("decode", "invalid character"), outDecoded |-> FALSE]
             ELSE [result |-> Success, outDecoded |-> TRUE]
    ELSE [result |-> Success, outDecoded |-> FALSE]

\* API.Request
Request ==
    /\ call = NoCall
    /\ \E method \in Methods, params \in ParamBags, base \in BaseQueries,
          out \in BOOLEAN, transport \in Transports :
          call' = [fn |-> "Request", method |-> method, params |-> params,
                   base |-> base, secretKey |-> "", now |-> 0, out |-> out,
                   transport |-> transport,
                   rawQuery |-> PlainQuery(method, params, base),
                   result |-> OnResponse(transport, out).result,
                   outDecoded |-> OnResponse(transport, out).outDecoded]
    /\ UNCHANGED streamVars

\* API.SignedRequest
SignedRequest ==
    /\ call = NoCall
    /\ \E method \in Methods, params \in ParamBags, base \in BaseQueries,
          secretKey \in SecretKeys, now \in Clocks,
          out \in BOOLEAN, transport \in Transports :
          call' = [fn |-> "SignedRequest", method |-> method, params |-> params,
                   base |-> base, secretKey |-> secretKey, now |-> now, out |-> out,
                   transport |-> transport,
                   rawQuery |-> SignedQuery(params, base, secretKey, now),
                   result |-> OnResponse(transport, out).result,
                   outDecoded |-> OnResponse(transport, out).outDecoded]
    /\ UNCHANGED streamVars

ReqNext ==
    \/ Request
    \/ SignedRequest

\* The requests are made through a client that runs no subscription.
ReqInit == Init /\ autoReconnect /\ endpoint = "btcusdt@depth"

ReqSpec == ReqInit /\ [][ReqNext]_vars


(***************************************************************************)
(* Properties of the request dispatcher.                                   *)
(***************************************************************************)
\* The last index of token t in str, 0 when it is absent.
LastIndexOf(str, t) ==
    IF \E i \in 1..Len(str) : str[i] = t
      THEN CHOOSE i \in 1..Len(str) : str[i] = t /\ \A j \in (i + 1)..Len(str) : str[j] # t
      ELSE 0

\* C1: in the query a signed request sends, the last key is the signature,
\* and its value is the hex HMAC-SHA256, under the secret key, of exactly the
\* query that precedes it, which holds the timestamp.
C1_SignatureLast ==
    call.fn = "SignedRequest" =>
        LET raw == call.rawQuery
            amp == LastIndexOf(raw, "&")
            Q == SubSeq(raw, 1, amp - 1)
            ps == Pairs(raw)
        IN  /\ amp > 1
            /\ ps[Len(ps)].key = <<"signature">>
            /\ ps[Len(ps)].val = <<HexHmacSha256(call.secretKey, Q)>>
            /\ raw = Q \o <<"&", "signature", "=", HexHmacSha256(call.secretKey, Q)>>
            /\ \E i \in 1..(Len(ps) - 1) : ps[i].key = <<"timestamp">>
            /\ Pairs(Q) = SubSeq(ps, 1, Len(ps) - 1)

\* A signed request whose parameters hold a key that sorts after the
\* timestamp and a key named signature of their own.
C1_Witness ==
    /\ call.fn = "SignedRequest"
    /\ DOMAIN call.params = {<<"zeta">>, <<"signature">>}
    /\ call.params[<<"zeta">>] = JStr(<<"a", "&", "signature", "=", "b">>)
    /\ call.method = "POST"

\* C7: for both kinds of request a response of a status other than 200 with
\* an Exchange Error body returns a failure whose message is the body's msg,
\* and nothing is decoded into the output shape; only status 200 returns
\* success.
C7_ErrorMessageSurfaced ==
    (call.fn # "none" /\ call.transport.k = "response") =>
        /\ (call.transport.status # 200 /\ call.transport.body.k = "error") =>
              /\ call.result.kind = "error"
              /\ call.result.msg = call.transport.body.msg
              /\ ~call.outDecoded
        /\ call.transport.status # 200 => call.result.kind # "ok"
        /\ call.result.kind = "ok" => call.transport.status = 200

\* The canned 400 body {code: -1100, msg: "Illegal characters"} on a signed
\* request with an output shape.
C7_Witness ==
    /\ call.fn = "SignedRequest"
    /\ call.out
    /\ call.transport = Resp(400, ErrBody(-1100, "Illegal characters"))
    /\ call.result = Failure("exchange", "Illegal characters")

\* C8: a network-level failure of the transport (an error and no response)
\* is returned to the caller as an error: no crash, no success.
C8_TransportErrorReturned ==
    (call.fn # "none" /\ call.transport.k = "neterr") => call.result.kind = "error"

\* C9: a body that cannot be decoded yields the decode error, both at status
\* 200 with an output shape and at any other status.
C9_DecodeErrorReturned ==
    (/\ call.fn # "none"
     /\ call.transport.k = "response"
     /\ call.transport.body.k = "garbage"
     /\ (call.transport.status # 200 \/ call.out)) =>
        /\ call.result.kind = "error"
        /\ call.result.src = "decode"

\* The textual form of a parameter value: a number in decimal.
Stringified(v) == IF v.t = "number" THEN <<ToString(v.n)>> ELSE Sprintf(v)

\* C10: the query a plain GET sends holds exactly the keys of the parameter
\* bag, once each, each with its stringified value.
C10_QueryIsExactlyParams ==
    (call.fn = "Request" /\ call.method = "GET" /\ call.transport.k = "response") =>
        LET ps == Pairs(call.rawQuery)
        IN  /\ {ps[i].key : i \in 1..Len(ps)} = DOMAIN call.params
            /\ Len(ps) = Cardinality(DOMAIN call.params)
            /\ \A i \in 1..Len(ps) : ps[i].val = Stringified(call.params[ps[i].key])

\* The timestamp a signed request appended: the last timestamp of its query.
SentTimestamp ==
    LET ts == SelectSeq(Pairs(call.rawQuery), LAMBDA p : p.key = <<"timestamp">>)
    IN  ts[Len(ts)].val

\* C17: the timestamp parameter of a signed request is the clock reading at
\* the call, in milliseconds.
C17_TimestampIsNow ==
    call.fn = "SignedRequest" => SentTimestamp = <<ToString(call.now)>>

====
